---------------------------- MODULE Spec2Model ----------------------------
(***************************************************************************)
(* The interactive manipulation pipeline of MixerGL (App.cpp): selection   *)
(* by ray picking, the gizmo-axis hit test of the mouse button callback    *)
(* and the per-frame drag block of the main loop.                          *)
(*                                                                         *)
(* Numbers.  The program computes in 32-bit floats; the model computes in  *)
(* exact fixed point, one model unit being 1/Unit = 0.1 world units.  A    *)
(* vector is a triple of integers.  Every input of the model is chosen so  *)
(* that no comparison of the float computation is decided by a rounding    *)
(* error: all values are small multiples of 0.1, and where a test is       *)
(* decided exactly on its boundary the values are exact floats.            *)
(* Tests that take a square root in the code (a length compared with a     *)
(* tolerance) are compared by their squares.                               *)
(*                                                                         *)
(* Specifications.  Spec is the whole program on a coarse grid; DragSpec   *)
(* is the default cube dragged in small steps along each axis; TwoSpec is  *)
(* two cubes dragged along X and Z; ScaleSpec is Scale mode with new       *)
(* objects and the Scale widget; GeomSpec is the two geometric tests       *)
(* applied to rays and objects drawn from small sets; PickSpec is the      *)
(* picking loop on the lists it can be given.                              *)
(***************************************************************************)
EXTENDS Integers, Sequences, FiniteSets

VARIABLES
    objects,               \* std::vector<Object> objects
    selectedObject,        \* int selectedObject, -1 = none, else 0-based index
    selectedAxis,          \* int selectedAxis, -1 = none, 0 = X, 1 = Y, 2 = Z
    isDragging,            \* bool isDragging
    initialClickPosition,  \* glm::vec3 initialClickPosition, the drag anchor
    currentMode,           \* TransformationMode currentMode
    cameraPosition,        \* camera.Position, the origin of every ray
    rayDirection,          \* what ScreenToWorldRay returns for the live cursor
    lastEvent,             \* the handler that ran last
    pre                    \* the selection and drag state that handler started from

vars == <<objects, selectedObject, selectedAxis, isDragging,
          initialClickPosition, currentMode, cameraPosition, rayDirection,
          lastEvent, pre>>

-----------------------------------------------------------------------------
(* Bounds of the model and constants of the program.                       *)

\* one world unit in model units (fixed point, tenths)
Unit == 10

\* the object list holds at most this many objects
MaxObjects == 2

\* every coordinate of a position or a scale stays within this many units
MaxCoord == 25

\* float movementSensitivity = 4.0f
movementSensitivity == 4

\* const float gizmoClickRadius = 0.2f, in model units
gizmoClickRadius == 2

\* the lower clamp glm::vec3(0.1f) of a dragged scale, in model units
MinScale == 1

TRANSLATE == "TRANSLATE"
ROTATE == "ROTATE"
SCALE == "SCALE"

TransformationMode == {TRANSLATE, ROTATE, SCALE}

-----------------------------------------------------------------------------
(* glm vector arithmetic on triples.                                       *)

Vec(x, y, z) == <<x, y, z>>

VecAdd(a, b) == <<a[1] + b[1], a[2] + b[2], a[3] + b[3]>>

VecSub(a, b) == <<a[1] - b[1], a[2] - b[2], a[3] - b[3]>>

VecScale(k, a) == <<k * a[1], k * a[2], k * a[3]>>

Dot(a, b) == a[1] * b[1] + a[2] * b[2] + a[3] * b[3]

Cross(a, b) == <<a[2] * b[3] - a[3] * b[2],
                 a[3] * b[1] - a[1] * b[3],
                 a[1] * b[2] - a[2] * b[1]>>

Max(a, b) == IF a >= b THEN a ELSE b

\* glm::max(v, glm::vec3(m)), component-wise
VecMax(a, m) == <<Max(a[1], m), Max(a[2], m), Max(a[3], m)>>

\* the unit vector of axis 0 = X, 1 = Y, 2 = Z
AxisUnit(axis) == [j \in 1..3 |-> IF j = axis + 1 THEN Unit ELSE 0]

-----------------------------------------------------------------------------
(* The inputs the environment can present.                                 *)

\* camera positions: the start position (0,0,3) and two the user can fly to
CamPositions == { Vec(0, 0, 30), Vec(0, 5, 30), Vec(30, 5, 10) }

\* normalised ray directions the cursor can produce
RayDirs == { Vec(0, 0, -10), Vec(-10, 0, 0) }

\* objects[i] of the code is objects[i + 1] of the model
Obj(objs, i) == objs[i + 1]

\* { position, glm::vec3(1.0f), glm::vec4(1.0f), isCube }: of an Object the
\* pipeline reads and writes position and scale only
NewObject(position) == [position |-> position, scale |-> Vec(Unit, Unit, Unit)]


-----------------------------------------------------------------------------
(* Geometry: App.cpp 550-563, 869-890, 1041-1052.                          *)

\* RayIntersectsObject: the bounding-sphere test.  With oc = origin - centre,
\* a = d.d, b = 2 oc.d, c = oc.oc - radius^2 and radius = 0.5 * |scale|, the
\* discriminant b*b - 4*a*c equals 4 (oc.d)^2 - 4 (d.d)(oc.oc) + (d.d)|scale|^2.
Discriminant(ray_origin, ray_direction, object) ==
    LET oc == VecSub(ray_origin, object.position)
        a == Dot(ray_direction, ray_direction)
        halfB == Dot(oc, ray_direction)
    IN  4 * halfB * halfB - 4 * a * Dot(oc, oc) + a * Dot(object.scale, object.scale)

\* a plausible slip: the test is discriminant >= 0
RayIntersectsObjectNonNegative(ray_origin, ray_direction, object) ==
    Discriminant(ray_origin, ray_direction, object) >= 0

RayIntersectsObject(ray_origin, ray_direction, object) ==
    Discriminant(ray_origin, ray_direction, object) > 0

\* DistanceFromRayToLineSegment, as the square of the distance it returns,
\* given as a fraction num / den in model units squared.  The ray origin is
\* projected on the line of the segment, the parameter t is clamped to [0,1],
\* and the result is the distance of that clamped point from the ray's line.
\* t = tNum / tDen with tDen = |line|^2, so that no square root is taken.
\* The closest point start + t * line is on the grid of the model for the
\* segments the program passes (an endpoint on the grid, direction along an
\* axis, length one world unit), which makes the division exact.
DistanceFromRayToLineSegment(ray_origin, ray_direction, line_start, line_end) ==
    LET line == VecSub(line_end, line_start)
        v == VecSub(ray_origin, line_start)
        tDen == Dot(line, line)
        tRaw == Dot(v, line)
        tNum == IF tRaw < 0 THEN 0 ELSE IF tRaw > tDen THEN tDen ELSE tRaw
        closest_point == [j \in 1..3 |-> line_start[j] + (tNum * line[j]) \div tDen]
        perpendicular_dist == Cross(ray_direction, VecSub(closest_point, ray_origin))
    IN  [num |-> Dot(perpendicular_dist, perpendicular_dist),
         den |-> Dot(ray_direction, ray_direction)]

\* distance < radius, for a distance given by its square num / den
DistanceBelow(distSq, radius) == distSq.num < radius * radius * distSq.den

\* IsRayNearCircle for an axis-aligned normal and a radius given in model
\* units, with the threshold 0.1 = 1 model unit.  A ray parallel to the
\* plane divides by zero: t is infinite or NaN and the final comparison is
\* false.  Otherwise t = (centre - origin).n / d.n, rejected when negative,
\* and the hit point is origin + t d; y below is (hit - centre) * (d.n).
IsRayNearCircle(ray_origin, ray_direction, center, axis, radius) ==
    LET dn == ray_direction[axis + 1]
        cn == center[axis + 1] - ray_origin[axis + 1]
        y == VecAdd(VecScale(dn, VecSub(ray_origin, center)), VecScale(cn, ray_direction))
        ySq == Dot(y, y)
    IN  /\ dn # 0
        /\ cn * dn >= 0
        /\ (radius - 1) * (radius - 1) * dn * dn < ySq
        /\ ySq < (radius + 1) * (radius + 1) * dn * dn

-----------------------------------------------------------------------------
(* mouse_button_callback, App.cpp 443-515.                                 *)

\* the arrow of one axis is within the click radius of the ray (467, 473, 479)
ArrowHit(ray_origin, ray_direction, obj, axis) ==
    DistanceBelow(
        DistanceFromRayToLineSegment(ray_origin, ray_direction, obj.position,
                                     VecAdd(obj.position, AxisUnit(axis))),
        gizmoClickRadius)

\* a plausible slip: the chain tests Z first, then Y, then X
GizmoAxisTestReversed(ray_origin, ray_direction, obj) ==
    IF ArrowHit(ray_origin, ray_direction, obj, 2) THEN 2
    ELSE IF ArrowHit(ray_origin, ray_direction, obj, 1) THEN 1
    ELSE IF ArrowHit(ray_origin, ray_direction, obj, 0) THEN 0
    ELSE -1

\* the if / else-if chain of lines 467-483: the axis it selects, -1 if none
GizmoAxisTest(ray_origin, ray_direction, obj) ==
    IF ArrowHit(ray_origin, ray_direction, obj, 0) THEN 0
    ELSE IF ArrowHit(ray_origin, ray_direction, obj, 1) THEN 1
    ELSE IF ArrowHit(ray_origin, ray_direction, obj, 2) THEN 2
    ELSE -1

\* a plausible slip: the anchor is the ray origin alone
ClickAnchorOrigin(ray_origin, ray_direction) == ray_origin

\* line 487: initialClickPosition = ray_origin + ray_direction
ClickAnchor(ray_origin, ray_direction) == VecAdd(ray_origin, ray_direction)

\* a plausible slip: selectedObject is reset to 0, not to -1, before the loop
PickObjectFromZero(ray_origin, ray_direction, objs) ==
    LET hits == { i \in 0..(Len(objs) - 1) :
                    RayIntersectsObject(ray_origin, ray_direction, Obj(objs, i)) }
    IN  IF hits = {} THEN 0
        ELSE CHOOSE i \in hits : \A j \in hits : i <= j

\* the loop of lines 497-504: the indices i at which it evaluates objects[i],
\* i.e. every index below objects.size() up to the first hit
PickVisited(ray_origin, ray_direction, objs) ==
    { i \in 0..(Len(objs) - 1) :
        \A j \in 0..(i - 1) :
            ~RayIntersectsObject(ray_origin, ray_direction, Obj(objs, j)) }

\* the loop of lines 497-504: the first index whose bounding sphere is hit
PickObject(ray_origin, ray_direction, objs) ==
    LET hits == { i \in 0..(Len(objs) - 1) :
                    RayIntersectsObject(ray_origin, ray_direction, Obj(objs, i)) }
    IN  IF hits = {} THEN -1
        ELSE CHOOSE i \in hits : \A j \in hits : i <= j

\* a plausible slip: picking is not skipped when a gizmo axis was hit
PickingAlways(selObj, dragging) == TRUE

\* line 496: object picking runs
PickingRuns(selObj, dragging) == selObj = -1 \/ ~dragging

\* a plausible slip: the WantCaptureMouse test is missing
PressNeverCaptured(wantCapture) == FALSE

\* line 446: the press is left to the UI
PressCaptured(wantCapture) == wantCapture

\* a plausible slip: the Z branch lacks its isDragging = true
DragAfterPressForgetZ(axis, dragging) == IF axis \in {0, 1} THEN TRUE ELSE dragging

\* a plausible slip: isDragging = true is set outside the if / else-if chain
DragAfterPressAlways(axis, dragging) == TRUE

\* lines 469, 475, 481: isDragging after the chain; no branch clears it
DragAfterPress(axis, dragging) == IF axis >= 0 THEN TRUE ELSE dragging

\* const radius 1.0f of the rings in HandleGizmoInteraction, in model units
RingRadius == 10

\* HandleGizmoInteraction, ROTATE case (1017-1034): the ring it selects, -1
\* if none.  The function is defined and never called.
RingAxisTest(ray_origin, ray_direction, obj) ==
    IF IsRayNearCircle(ray_origin, ray_direction, obj.position, 0, RingRadius) THEN 0
    ELSE IF IsRayNearCircle(ray_origin, ray_direction, obj.position, 1, RingRadius) THEN 1
    ELSE IF IsRayNearCircle(ray_origin, ray_direction, obj.position, 2, RingRadius) THEN 2
    ELSE -1

-----------------------------------------------------------------------------
(* What a handler starts from, kept in pre while lastEvent names it: the   *)
(* selection and drag state, and the UI's capture flag the handler read.  *)
(* For a frame, pre.gizmo holds the gizmo geometry the frame has drawn; the *)
(* geometry is transient (DrawArrow and DrawCircle delete their buffers),  *)
(* so every other handler leaves the empty sequence there.  For a frame    *)
(* whose drag block runs, pre.anchor holds the initialClickPosition the    *)
(* block has read.                                                         *)

Snapshot(wantCapture) ==
    [selectedObject |-> selectedObject, selectedAxis |-> selectedAxis,
     isDragging |-> isDragging, WantCaptureMouse |-> wantCapture,
     gizmo |-> << >>, anchor |-> << >>]

Ran(event, wantCapture) == lastEvent' = event /\ pre' = Snapshot(wantCapture)

\* float radius = 1.5f of the rings RenderRotationGizmo draws, in model units
RingDrawRadius == 15

\* RenderGizmo (816-819) and RenderScalingGizmo (974-976): the arrows and end
\* cubes hang on translate(position) * scale(scale); RenderRotationGizmo
\* (957-963): three rings of a fixed radius around the position
GizmoGeometry(obj, mode) ==
    [center |-> obj.position,
     extent |-> IF mode = ROTATE
                THEN Vec(RingDrawRadius, RingDrawRadius, RingDrawRadius)
                ELSE obj.scale]

\* lines 296-309: the gizmo a frame draws, from the objects it is given
RenderedGizmo(objs, selObj, mode) ==
    IF selObj >= 0 THEN << GizmoGeometry(Obj(objs, selObj), mode) >> ELSE << >>

\* a plausible slip: the guard of the drag block tests the selection only
DragActiveSelectionOnly(dragging, selObj, axis) == selObj >= 0

\* line 312: the guard of the drag block
DragActive(dragging, selObj, axis) == dragging /\ selObj >= 0 /\ axis >= 0

RanFrame(gizmo) ==
    /\ lastEvent' = "frame"
    /\ pre' = [Snapshot(FALSE) EXCEPT
                 !.gizmo = gizmo,
                 !.anchor = IF DragActive(isDragging, selectedObject, selectedAxis)
                            THEN << initialClickPosition >> ELSE << >>]

\* App.cpp 66-99 and 267-269: the globals and the default cube, which is
\* created at camera.Position + (0, 0.5, -3) = (0, 0.5, 0)
Init ==
    /\ cameraPosition = Vec(0, 0, 30)
    /\ objects = << NewObject(VecAdd(cameraPosition, Vec(0, 5, -30))) >>
    /\ selectedObject = -1
    /\ selectedAxis = -1
    /\ isDragging = FALSE
    /\ initialClickPosition = Vec(0, 0, 0)
    /\ currentMode = TRANSLATE
    /\ rayDirection \in RayDirs
    /\ lastEvent = "init"
    /\ pre = Snapshot(FALSE)

-----------------------------------------------------------------------------
(* The press and the release of the left button, App.cpp 443-515.          *)

\* button == GLFW_MOUSE_BUTTON_LEFT && action == GLFW_PRESS, with the value
\* ImGui::GetIO().WantCaptureMouse has when the event is dispatched
MousePress(wantCapture) ==
    /\ IF PressCaptured(wantCapture)
       THEN UNCHANGED <<selectedObject, selectedAxis, isDragging, initialClickPosition>>
       ELSE LET ray_origin == cameraPosition
                ray_direction == rayDirection
                axis == IF selectedObject >= 0
                        THEN GizmoAxisTest(ray_origin, ray_direction,
                                           Obj(objects, selectedObject))
                        ELSE -1
                dragging == DragAfterPress(axis, isDragging)
            IN  /\ selectedAxis' = axis
                /\ isDragging' = dragging
                /\ initialClickPosition' =
                       IF selectedObject >= 0 /\ dragging
                       THEN ClickAnchor(ray_origin, ray_direction)
                       ELSE initialClickPosition
                /\ selectedObject' =
                       IF PickingRuns(selectedObject, dragging)
                       THEN PickObject(ray_origin, ray_direction, objects)
                       ELSE selectedObject
    /\ UNCHANGED <<objects, currentMode, cameraPosition, rayDirection>>
    /\ Ran("press", wantCapture)

\* a plausible slip: the release forgets selectedAxis = -1
ReleasedKeepsAxis(dragging, axis) == <<FALSE, axis>>

\* what a release leaves in <<isDragging, selectedAxis>> (511-512)
ReleasedDragState(dragging, axis) == <<FALSE, -1>>

\* button == GLFW_MOUSE_BUTTON_LEFT && action == GLFW_RELEASE
MouseRelease(wantCapture) ==
    /\ LET released == ReleasedDragState(isDragging, selectedAxis)
       IN  isDragging' = released[1] /\ selectedAxis' = released[2]
    /\ UNCHANGED <<objects, selectedObject, initialClickPosition, currentMode,
                   cameraPosition, rayDirection>>
    /\ Ran("release", wantCapture)

\* mouse_callback, App.cpp 413-440: the cursor moves, and with it the ray the
\* next glfwGetCursorPos / ScreenToWorldRay pair yields; the handler itself
\* writes only camera-orientation state
CursorMove(direction) ==
    /\ rayDirection' = direction
    /\ UNCHANGED <<objects, selectedObject, selectedAxis, isDragging,
                   initialClickPosition, currentMode, cameraPosition>>
    /\ Ran("cursor", FALSE)

-----------------------------------------------------------------------------
(* One iteration of the main loop up to the UI, App.cpp 274-370.           *)

\* a plausible slip: the movement is not multiplied by movementSensitivity
DragMovementUnscaled(currentRayPosition, anchor, axis) ==
    LET movementScalar == Dot(VecSub(currentRayPosition, anchor), AxisUnit(axis)) \div Unit
    IN  [j \in 1..3 |-> (movementScalar * AxisUnit(axis)[j]) \div Unit]

\* line 335: dot(current - anchor, axisDirection) * axisDirection * sensitivity
DragMovement(currentRayPosition, anchor, axis) ==
    LET movementScalar == Dot(VecSub(currentRayPosition, anchor), AxisUnit(axis)) \div Unit
    IN  [j \in 1..3 |-> (movementScalar * AxisUnit(axis)[j] * movementSensitivity) \div Unit]

\* a plausible slip: the SCALE case lacks its glm::max
DragApplyNoClamp(obj, mode, movement) ==
    CASE mode = TRANSLATE -> [obj EXCEPT !.position = VecAdd(@, movement)]
      [] mode = ROTATE -> [obj EXCEPT !.position =
                               VecAdd(VecSub(obj.position, obj.position), obj.position)]
      [] mode = SCALE -> [obj EXCEPT !.scale = VecAdd(@, movement)]

\* a plausible slip: the SCALE case clamps at zero
DragApplyClampZero(obj, mode, movement) ==
    CASE mode = TRANSLATE -> [obj EXCEPT !.position = VecAdd(@, movement)]
      [] mode = ROTATE -> [obj EXCEPT !.position =
                               VecAdd(VecSub(obj.position, obj.position), obj.position)]
      [] mode = SCALE -> [obj EXCEPT !.scale = VecMax(VecAdd(@, movement), 0)]

\* a plausible slip: the SCALE case scales uniformly, by the movement along
\* the axis
DragApplyUniformScale(obj, mode, movement) ==
    CASE mode = TRANSLATE -> [obj EXCEPT !.position = VecAdd(@, movement)]
      [] mode = ROTATE -> [obj EXCEPT !.position =
                               VecAdd(VecSub(obj.position, obj.position), obj.position)]
      [] mode = SCALE ->
             LET m == movement[1] + movement[2] + movement[3]
             IN  [obj EXCEPT !.scale = VecMax(VecAdd(@, Vec(m, m, m)), MinScale)]

\* a plausible slip: the ROTATE case lacks its break and falls into SCALE
DragApplyRotateFallsThrough(obj, mode, movement) ==
    CASE mode = TRANSLATE -> [obj EXCEPT !.position = VecAdd(@, movement)]
      [] mode = ROTATE -> [obj EXCEPT !.scale = VecMax(VecAdd(@, movement), MinScale)]
      [] mode = SCALE -> [obj EXCEPT !.scale = VecMax(VecAdd(@, movement), MinScale)]

\* lines 338-367: the object after the drag of one frame.  In ROTATE mode the
\* position is rotated about objectCenter = position, i.e. the zero vector is
\* rotated and the centre added back.
DragApply(obj, mode, movement) ==
    CASE mode = TRANSLATE -> [obj EXCEPT !.position = VecAdd(@, movement)]
      [] mode = ROTATE -> [obj EXCEPT !.position =
                               VecAdd(VecSub(obj.position, obj.position), obj.position)]
      [] mode = SCALE -> [obj EXCEPT !.scale = VecMax(VecAdd(@, movement), MinScale)]

InBounds(obj) ==
    \A j \in 1..3 : /\ -MaxCoord <= obj.position[j] /\ obj.position[j] <= MaxCoord
                    /\ obj.scale[j] <= MaxCoord

\* a plausible slip: the anchor of the click is kept for the whole drag
AnchorKept(currentRayPosition, anchor) == anchor

\* line 369: initialClickPosition = currentRayPosition
AnchorAfterFrame(currentRayPosition, anchor) == currentRayPosition

\* processInput may have moved the camera (282); the gizmo is drawn (296-309)
\* and then the drag block (311-370) runs
FrameTick(camera) ==
    /\ cameraPosition' = camera
    /\ IF DragActive(isDragging, selectedObject, selectedAxis)
       THEN LET currentRayPosition == VecAdd(camera, rayDirection)
                movement == DragMovement(currentRayPosition, initialClickPosition,
                                         selectedAxis)
                dragged == DragApply(Obj(objects, selectedObject), currentMode, movement)
            IN  /\ InBounds(dragged)
                /\ objects' = [objects EXCEPT ![selectedObject + 1] = dragged]
                /\ initialClickPosition' =
                       AnchorAfterFrame(currentRayPosition, initialClickPosition)
       ELSE UNCHANGED <<objects, initialClickPosition>>
    /\ UNCHANGED <<selectedObject, selectedAxis, isDragging, currentMode, rayDirection>>
    /\ RanFrame(RenderedGizmo(objects, selectedObject, currentMode))

-----------------------------------------------------------------------------
(* The widgets of RenderImGui, App.cpp 658-726.                            *)

\* lines 682-692: the Move / Rotate / Scale buttons
SetMode(mode) ==
    /\ currentMode' = mode
    /\ UNCHANGED <<objects, selectedObject, selectedAxis, isDragging,
                   initialClickPosition, cameraPosition, rayDirection>>
    /\ Ran("mode", FALSE)

\* a plausible slip: the new object is inserted at the front
PushFront(objs, obj) == << obj >> \o objs

\* lines 702 and 708: objects.push_back(...)
PushBack(objs, obj) == Append(objs, obj)

\* lines 700-710: Add Cube / Add Sphere, both at (0, 0.5, 0)
AddObject ==
    /\ Len(objects) < MaxObjects
    /\ objects' = PushBack(objects, NewObject(Vec(0, 5, 0)))
    /\ UNCHANGED <<selectedObject, selectedAxis, isDragging, initialClickPosition,
                   currentMode, cameraPosition, rayDirection>>
    /\ Ran("add", FALSE)

\* a plausible slip: the number shown for the entry, counted from 1
ListSelectionOneBased(i, selObj) == i + 1

\* what selecting entry i of the list leaves in selectedObject (715-716)
ListSelection(i, selObj) == i

\* lines 713-719: an entry of the object list is clicked
SelectFromList(i) ==
    /\ selectedObject' = ListSelection(i, selectedObject)
    /\ UNCHANGED <<objects, selectedAxis, isDragging, initialClickPosition,
                   currentMode, cameraPosition, rayDirection>>
    /\ Ran("select", FALSE)

\* the value a scale field is given in the Object Settings window, before
\* the widget's limits act: below the minimum, at zero, between the limits
ScaleEdits == { -5, 0, 20 }

\* v_min = 0.1f and v_max = 100.0f of the Scale widget (1071), in model units
UiMinScale == 1
UiMaxScale == 1000

\* DragFloat3 with limits: the value the widget stores
UiClamp(value, v_min, v_max) ==
    IF value < v_min THEN v_min ELSE IF value > v_max THEN v_max ELSE value

\* RenderObjectSettings, lines 1058-1071: field j of the selected object's
\* scale is edited
EditScale(j, value) ==
    /\ selectedObject >= 0 /\ selectedObject < Len(objects)
    /\ LET edited == [Obj(objects, selectedObject) EXCEPT
                         !.scale[j] = UiClamp(value, UiMinScale, UiMaxScale)]
       IN  /\ InBounds(edited)
           /\ objects' = [objects EXCEPT ![selectedObject + 1] = edited]
    /\ UNCHANGED <<selectedObject, selectedAxis, isDragging, initialClickPosition,
                   currentMode, cameraPosition, rayDirection>>
    /\ Ran("edit", FALSE)

Next ==
    \/ \E wantCapture \in BOOLEAN : MousePress(wantCapture)
    \/ \E wantCapture \in BOOLEAN : MouseRelease(wantCapture)
    \/ \E direction \in RayDirs : CursorMove(direction)
    \/ \E camera \in CamPositions : FrameTick(camera)
    \/ \E mode \in TransformationMode : SetMode(mode)
    \/ AddObject
    \/ \E i \in 0..(Len(objects) - 1) : SelectFromList(i)

Spec == Init /\ [][Next]_vars

-----------------------------------------------------------------------------
(* The default cube alone, dragged along each of the three axes: the       *)
(* camera is moved in small steps while the mouse stays put, so that a     *)
(* drag frame sees a small non-zero movement.                              *)

\* where processInput has put the camera when a frame starts: in front of
\* the cube (the X arrow is hit), to its right at the height of the cube (Z),
\* and to its right above the cube (Y); each place with a neighbour 0.3 away
DragCams == { Vec(0, 5, 30), Vec(3, 5, 30), Vec(30, 5, 10), Vec(30, 5, 13),
              Vec(30, 8, 0), Vec(30, 11, 0) }

\* the state at start-up, after one of the Move / Rotate / Scale buttons
DragInit ==
    /\ cameraPosition = Vec(0, 0, 30)
    /\ objects = << NewObject(VecAdd(cameraPosition, Vec(0, 5, -30))) >>
    /\ selectedObject = -1
    /\ selectedAxis = -1
    /\ isDragging = FALSE
    /\ initialClickPosition = Vec(0, 0, 0)
    /\ currentMode \in TransformationMode
    /\ rayDirection \in RayDirs
    /\ lastEvent = "init"
    /\ pre = Snapshot(FALSE)

DragNext ==
    \/ \E wantCapture \in BOOLEAN : MousePress(wantCapture)
    \/ \E wantCapture \in BOOLEAN : MouseRelease(wantCapture)
    \/ \E direction \in RayDirs : CursorMove(direction)
    \/ \E camera \in DragCams : FrameTick(camera)

DragSpec == DragInit /\ [][DragNext]_vars

-----------------------------------------------------------------------------
(* Two cubes, the default one and an added one, dragged along X and Z: the *)
(* second is selected from the object list, since both start at the same   *)
(* place and picking takes the first.                                      *)

\* the camera in front of the cubes and to their right, each place with a
\* neighbour 0.5 away
TwoCams == { Vec(0, 5, 30), Vec(5, 5, 30), Vec(30, 5, 10), Vec(30, 5, 15) }

\* the state after Add Cube and one of the Move / Rotate / Scale buttons
TwoInit ==
    /\ cameraPosition = Vec(0, 0, 30)
    /\ objects = << NewObject(VecAdd(cameraPosition, Vec(0, 5, -30))),
                    NewObject(Vec(0, 5, 0)) >>
    /\ selectedObject = -1
    /\ selectedAxis = -1
    /\ isDragging = FALSE
    /\ initialClickPosition = Vec(0, 0, 0)
    /\ currentMode \in TransformationMode
    /\ rayDirection \in RayDirs
    /\ lastEvent = "init"
    /\ pre = Snapshot(FALSE)

TwoNext ==
    \/ \E wantCapture \in BOOLEAN : MousePress(wantCapture)
    \/ \E wantCapture \in BOOLEAN : MouseRelease(wantCapture)
    \/ \E direction \in RayDirs : CursorMove(direction)
    \/ \E camera \in TwoCams : FrameTick(camera)
    \/ \E i \in 0..(Len(objects) - 1) : SelectFromList(i)

TwoSpec == TwoInit /\ [][TwoNext]_vars

-----------------------------------------------------------------------------
(* Scale mode with every way the program has to write a scale: new         *)
(* objects, Scale drags in both directions, and the Scale widget.          *)

\* the camera in front of the objects, and 0.4 to the right of that
ScaleCams == { Vec(0, 5, 30), Vec(4, 5, 30) }

\* the fields of the Scale widget that are edited: X, which the drags write
\* too, and Y, which only the widget writes
ScaleFields == 1..2

\* the state at start-up, after the Scale button
ScaleInit ==
    /\ cameraPosition = Vec(0, 0, 30)
    /\ objects = << NewObject(VecAdd(cameraPosition, Vec(0, 5, -30))) >>
    /\ selectedObject = -1
    /\ selectedAxis = -1
    /\ isDragging = FALSE
    /\ initialClickPosition = Vec(0, 0, 0)
    /\ currentMode = SCALE
    /\ rayDirection = Vec(0, 0, -10)
    /\ lastEvent = "init"
    /\ pre = Snapshot(FALSE)

ScaleNext ==
    \/ \E wantCapture \in BOOLEAN : MousePress(wantCapture)
    \/ \E wantCapture \in BOOLEAN : MouseRelease(wantCapture)
    \/ \E camera \in ScaleCams : FrameTick(camera)
    \/ AddObject
    \/ \E i \in 0..(Len(objects) - 1) : SelectFromList(i)
    \/ \E j \in ScaleFields, value \in ScaleEdits : EditScale(j, value)

ScaleSpec == ScaleInit /\ [][ScaleNext]_vars

-----------------------------------------------------------------------------
(* The two geometric tests on their own: one object, the camera and the    *)
(* cursor ray drawn from small sets, and the presses that apply the tests.  *)

\* camera positions: (0, 0, 5), in front of the default cube, and up left
GeomCams == { Vec(0, 0, 50), Vec(0, 5, 30), Vec(-20, 5, 40) }

\* unit ray directions: forward, backward, and (0.6, 0, -0.8); and the
\* direction from (0, 0, 5) to (1, 0, 0), which is (1, 0, -5) / sqrt(26) and
\* not on the grid: it is given as the parallel (0.2, 0, -1), of length 1.02.
\* Both tests of a press are the same for parallel directions; only the
\* anchor a press stores is off by that factor.
GeomDirs == { Vec(0, 0, -10), Vec(0, 0, 10), Vec(6, 0, -8), Vec(2, 0, -10) }

\* the object at the origin, where the default cube is, and 1.5 to its right
GeomPositions == { Vec(0, 0, 0), Vec(0, 5, 0), Vec(15, 5, 0) }

\* scales: (1, 1, 1), and (2, 2, 1) whose bounding sphere has radius 1.5
GeomScales == { Vec(10, 10, 10), Vec(20, 20, 10) }

\* a scene with one object, after the camera has been flown somewhere and
\* the object's position and scale have been set
GeomInit ==
    /\ cameraPosition \in GeomCams
    /\ \E position \in GeomPositions, scale \in GeomScales :
           objects = << [position |-> position, scale |-> scale] >>
    /\ selectedObject = -1
    /\ selectedAxis = -1
    /\ isDragging = FALSE
    /\ initialClickPosition = Vec(0, 0, 0)
    /\ currentMode = TRANSLATE
    /\ rayDirection \in GeomDirs
    /\ lastEvent = "init"
    /\ pre = Snapshot(FALSE)

GeomNext ==
    \/ \E wantCapture \in BOOLEAN : MousePress(wantCapture)
    \/ \E wantCapture \in BOOLEAN : MouseRelease(wantCapture)
    \/ \E direction \in GeomDirs : CursorMove(direction)
    \/ \E i \in 0..(Len(objects) - 1) : SelectFromList(i)

GeomSpec == GeomInit /\ [][GeomNext]_vars

-----------------------------------------------------------------------------
(* The picking loop on the lists it can be given, the empty list included. *)
(* The program starts with the default cube and never removes an object,   *)
(* so the empty list is an input of this specification and not a state of  *)
(* the ones above.                                                         *)

\* the object lists given to the loop
PickLists == { << >>, << NewObject(Vec(0, 5, 0)) >> }

PickInit ==
    /\ cameraPosition \in GeomCams
    /\ objects \in PickLists
    /\ selectedObject = -1
    /\ selectedAxis = -1
    /\ isDragging = FALSE
    /\ initialClickPosition = Vec(0, 0, 0)
    /\ currentMode = TRANSLATE
    /\ rayDirection \in GeomDirs
    /\ lastEvent = "init"
    /\ pre = Snapshot(FALSE)

PickNext ==
    \/ \E wantCapture \in BOOLEAN : MousePress(wantCapture)
    \/ \E wantCapture \in BOOLEAN : MouseRelease(wantCapture)
    \/ \E direction \in GeomDirs : CursorMove(direction)
    \/ \E i \in 0..(Len(objects) - 1) : SelectFromList(i)

PickSpec == PickInit /\ [][PickNext]_vars

TypeOK ==
    /\ selectedObject \in -1..(Len(objects) - 1)
    /\ selectedAxis \in -1..2
    /\ isDragging \in BOOLEAN
    /\ currentMode \in TransformationMode
    /\ Len(objects) \in 1..MaxObjects
    /\ \A i \in 1..Len(objects) : InBounds(objects[i])

-----------------------------------------------------------------------------
(* Properties of the selection and drag state.                             *)

\* the press that ran last was not left to the UI
UncapturedPress == lastEvent = "press" /\ ~pre.WantCaptureMouse

\* the axes whose arrow the current ray hits on the object with index i
AxesHit(i) == { a \in 0..2 : ArrowHit(cameraPosition, rayDirection, Obj(objects, i), a) }

\* the earliest of a non-empty set of axes in the order X, Y, Z
Earliest(axes) == CHOOSE a \in axes : \A b \in axes : a <= b

\* C1: in every reachable state, isDragging implies that selectedAxis is one
\* of X, Y, Z.
C1_DraggingHasAxis == isDragging => selectedAxis \in {0, 1, 2}

\* C2: in every reachable state, no selected object means no active drag
\* (isDragging false and selectedAxis -1), and a drag means a selected object.
C2_NoSelectionNoDrag ==
    /\ selectedObject = -1 => (~isDragging /\ selectedAxis = -1)
    /\ isDragging => selectedObject >= 0

\* a press that was not captured cleared a selection
C2_Witness ==
    UncapturedPress /\ pre.selectedObject >= 0 /\ selectedObject = -1

\* C3: a release of the left button always leaves isDragging false and
\* selectedAxis -1, whatever the mode, the selection, the drag state before
\* it and the UI's capture flag.
C3_ReleaseClearsDrag == lastEvent = "release" => (~isDragging /\ selectedAxis = -1)

\* a release ended a drag in Scale mode while the UI wanted the mouse
C3_Witness ==
    /\ lastEvent = "release"
    /\ pre.isDragging /\ pre.selectedAxis >= 0 /\ pre.WantCaptureMouse
    /\ currentMode = SCALE

\* C4: a release while isDragging is false changes none of selectedObject,
\* selectedAxis, isDragging, currentMode, the anchor and the objects.
C4_IdleReleaseIsNoOp ==
    [][(lastEvent' = "release" /\ ~isDragging) =>
          UNCHANGED <<selectedObject, selectedAxis, isDragging, currentMode,
                      initialClickPosition, objects>>]_vars

\* a release came while nothing was dragged and an object was selected
C4_Witness ==
    lastEvent = "release" /\ ~pre.isDragging /\ selectedObject >= 0 /\ ~isDragging

\* C5: a press while the UI wants the mouse changes none of selectedObject,
\* selectedAxis, isDragging, the anchor and the objects.
C5_CapturedPressIsNoOp ==
    [][(lastEvent' = "press" /\ pre'.WantCaptureMouse) =>
          UNCHANGED <<selectedObject, selectedAxis, isDragging,
                      initialClickPosition, objects>>]_vars

\* a captured press left a selection alone that its ray would have cleared
C5_Witness ==
    /\ lastEvent = "press" /\ pre.WantCaptureMouse
    /\ selectedObject >= 0
    /\ ~isDragging
    /\ PickObject(cameraPosition, rayDirection, objects) = -1

\* C6: after a press with an object selected whose ray is within the click
\* radius of one or more arrows, selectedAxis is the earliest of them in the
\* order X, Y, Z.
C6_FirstAxisWins ==
    (UncapturedPress /\ pre.selectedObject >= 0 /\ AxesHit(pre.selectedObject) # {})
        => selectedAxis = Earliest(AxesHit(pre.selectedObject))

\* a press hit two arrows or more and X was taken
C6_Witness ==
    /\ UncapturedPress /\ pre.selectedObject >= 0
    /\ Cardinality(AxesHit(pre.selectedObject)) >= 2
    /\ selectedAxis = 0

\* C7: the gizmo test of a press is mode-aware: in Translate and Scale mode
\* the axis comes from the arrows tested with the ray-to-segment distance, in
\* Rotate mode from the rings tested with the ray-near-circle test.
C7_ModeAwareGizmoTest ==
    (UncapturedPress /\ pre.selectedObject >= 0) =>
        selectedAxis =
            IF currentMode = ROTATE
            THEN RingAxisTest(cameraPosition, rayDirection,
                              Obj(objects, pre.selectedObject))
            ELSE GizmoAxisTest(cameraPosition, rayDirection,
                               Obj(objects, pre.selectedObject))

\* C8: a press whose ray matches an arrow of the selected object sets
\* selectedAxis to that axis, isDragging to true and the anchor to ray origin
\* plus ray direction.
C8_GizmoHitStartsDrag ==
    (UncapturedPress /\ pre.selectedObject >= 0 /\ AxesHit(pre.selectedObject) # {})
        => /\ selectedAxis \in AxesHit(pre.selectedObject)
           /\ isDragging
           /\ initialClickPosition = VecAdd(cameraPosition, rayDirection)

\* a press on an arrow started a drag from the idle state
C8_Witness ==
    /\ UncapturedPress /\ pre.selectedObject >= 0
    /\ ~pre.isDragging /\ isDragging
    /\ selectedAxis >= 0

\* C9: after every press that the UI did not capture and on which no gizmo
\* axis matched (or nothing was selected), selectedObject is the smallest
\* index whose bounding sphere the ray intersects, or -1 if there is none.
C9_PickingAfterGizmoMiss ==
    (UncapturedPress /\ (pre.selectedObject = -1 \/ AxesHit(pre.selectedObject) = {}))
        => selectedObject = PickObject(cameraPosition, rayDirection, objects)

\* C10: isDragging goes from false to true only in a press that hits a gizmo
\* axis of the selected object, and from true to false only in a release; in
\* particular no frame tick and no UI action changes it.
C10_DragTransitions ==
    /\ (~pre.isDragging /\ isDragging) =>
           /\ UncapturedPress
           /\ pre.selectedObject >= 0
           /\ AxesHit(pre.selectedObject) # {}
    /\ (pre.isDragging /\ ~isDragging) => lastEvent = "release"
    /\ lastEvent \in {"frame", "cursor", "mode", "add", "select"}
           => isDragging = pre.isDragging

\* a UI action in the middle of a drag left the drag on
C10_Witness ==
    /\ lastEvent \in {"mode", "add", "select"}
    /\ pre.isDragging /\ isDragging /\ selectedAxis >= 0


-----------------------------------------------------------------------------
(* Properties of a drag frame.                                             *)

\* the frame that ran last has run its drag block
DragFrameRan == lastEvent = "frame" /\ pre.anchor # << >>

\* the ray point of the frame that ran last
FrameRayPoint == VecAdd(cameraPosition, rayDirection)

\* the displacement of that ray point from the anchor the frame has read,
\* along the selected axis
FrameScalar == FrameRayPoint[selectedAxis + 1] - pre.anchor[1][selectedAxis + 1]

\* C11: a drag frame in Translate mode adds to the selected object's
\* position, along the selected axis, 4.0 times the displacement of the
\* current ray point from the anchor along that axis, and nothing else.
C11_TranslateFrame ==
    (DragFrameRan /\ currentMode = TRANSLATE) =>
        LET obj == Obj(objects, selectedObject)
            before == pre.gizmo[1]
        IN  /\ obj.position =
                   [before.center EXCEPT ![selectedAxis + 1] = @ + 4 * FrameScalar]
            /\ obj.scale = before.extent

\* a Translate frame with a displacement of 0.3 along X has moved the default
\* cube by (1.2, 0, 0)
C11_Witness ==
    /\ DragFrameRan /\ currentMode = TRANSLATE /\ selectedAxis = 0
    /\ FrameScalar = 3
    /\ pre.gizmo[1].center = Vec(0, 5, 0)
    /\ objects[1].position = Vec(12, 5, 0)

\* C12: a drag frame in Scale mode adds the movement to the selected
\* object's scale and clamps at the minimum 0.1, with no maximum; the other
\* components and the position keep their values.
C12_ScaleFrame ==
    (DragFrameRan /\ currentMode = SCALE) =>
        LET obj == Obj(objects, selectedObject)
            before == pre.gizmo[1]
            sum == before.extent[selectedAxis + 1] + 4 * FrameScalar
        IN  /\ obj.scale = [before.extent EXCEPT ![selectedAxis + 1] =
                                IF sum < 1 THEN 1 ELSE sum]
            /\ obj.position = before.center

\* a Scale frame with the movement (-1.2, 0, 0) on the scale (1, 1, 1) has
\* left X at 0.1 and Y and Z at 1
C12_Witness ==
    /\ DragFrameRan /\ currentMode = SCALE /\ selectedAxis = 0
    /\ FrameScalar = -3
    /\ pre.gizmo[1].extent = Vec(10, 10, 10)
    /\ objects[1].scale = Vec(1, 10, 10)

\* C13: in every reachable state every component of every object's scale is
\* at least 0.1.
C13_ScaleAtLeastMin ==
    \A i \in 1..Len(objects) : \A j \in 1..3 : objects[i].scale[j] >= 1

\* with two objects in the scene, a Scale drag has brought X of the selected
\* one from above the minimum down to it, after the widget had put Y there
C13_Witness ==
    /\ DragFrameRan /\ Len(objects) = 2
    /\ pre.gizmo[1].extent[1] > 1
    /\ Obj(objects, selectedObject).scale[1] = 1
    /\ Obj(objects, selectedObject).scale[2] = 1

\* a step is a frame that runs its drag block
DragFrameStep == lastEvent' = "frame" /\ pre'.anchor # << >>

\* C14: a drag frame in Rotate mode leaves every object as it is, position
\* and scale, whatever the axis and the drag distance.
C14_RotateFrameIsNoOp ==
    [][(DragFrameStep /\ currentMode = ROTATE) => objects' = objects]_vars

\* a Rotate frame has run with a non-zero displacement along the Y axis
C14_Witness ==
    /\ DragFrameRan /\ currentMode = ROTATE /\ selectedAxis = 1
    /\ FrameScalar # 0

\* C15: every drag frame leaves the anchor at its own ray point, and a drag
\* frame that follows a drag frame with the same ray moves nothing.
C15_AnchorFollowsRay ==
    [][DragFrameStep =>
          /\ initialClickPosition' = VecAdd(cameraPosition', rayDirection')
          /\ (DragFrameRan /\ cameraPosition' = cameraPosition) => objects' = objects]_vars

\* a Translate frame has found the anchor at its own ray point, in a drag
\* that had moved the cube before, and has left the cube where it was
C15_Witness ==
    /\ DragFrameRan /\ currentMode = TRANSLATE
    /\ pre.anchor = << FrameRayPoint >>
    /\ initialClickPosition = FrameRayPoint
    /\ objects[1].position # Vec(0, 5, 0)
    /\ pre.gizmo[1].center = objects[1].position

\* C16: the gizmo geometry a frame draws is that of the selected object as
\* the frame's drag leaves it.
C16_GizmoAfterDrag ==
    (lastEvent = "frame" /\ pre.gizmo # << >>) =>
        pre.gizmo = RenderedGizmo(objects, selectedObject, currentMode)

\* C17: the object sequence only grows at its end: an add appends one
\* object behind the others, and no other step changes the length or the
\* place of an object (at most the selected entry is written).
C17_AppendOnly ==
    [][IF lastEvent' = "add"
       THEN /\ Len(objects') = Len(objects) + 1
            /\ SubSeq(objects', 1, Len(objects)) = objects
       ELSE /\ Len(objects') = Len(objects)
            /\ \A i \in 1..Len(objects) :
                   i # selectedObject + 1 => objects'[i] = objects[i]]_vars

\* an object has been added behind one that differs from it
C17_Witness ==
    /\ lastEvent = "add" /\ Len(objects) = 2
    /\ objects[1] # objects[2]
    /\ objects[2] = NewObject(Vec(0, 5, 0))


-----------------------------------------------------------------------------
(* Properties of the geometric tests.                                      *)

\* the press that ran last has run the picking loop over a single object
\* with nothing selected before
PickedAlone == UncapturedPress /\ pre.selectedObject = -1 /\ Len(objects) = 1

\* the discriminant of the ray / sphere quadratic for the current ray and
\* the object with index 0, times 1 (in hundredths squared)
PickDiscriminant == Discriminant(cameraPosition, rayDirection, Obj(objects, 0))

\* 4 |d|^2 (dist^2 - radius^2), dist the distance of the sphere's centre from
\* the line of the ray: negative when the line crosses the sphere, zero
\* when it touches it
LineSphereGap ==
    LET oc == VecSub(cameraPosition, Obj(objects, 0).position)
        n == Cross(oc, rayDirection)
    IN  4 * Dot(n, n) - Dot(rayDirection, rayDirection)
                           * Dot(Obj(objects, 0).scale, Obj(objects, 0).scale)

\* C18, as the code has it: the sphere test is true exactly when the
\* discriminant is positive, with the radius 0.5 * |scale|; a ray that is
\* tangent to the sphere (discriminant zero) is reported as not intersecting.
C18_HitIffDiscriminantPositive ==
    PickedAlone =>
        /\ PickDiscriminant = -LineSphereGap
        /\ selectedObject = 0 <=> PickDiscriminant > 0

\* C18 as stated: the sphere test is true exactly when the discriminant is
\* non-negative, so that a tangent ray is reported as intersecting.
C18_HitIffDiscriminantNonNegative ==
    PickedAlone => (selectedObject = 0 <=> PickDiscriminant >= 0)

\* a press with a ray tangent to the bounding sphere has picked nothing
C18_Witness ==
    /\ PickedAlone
    /\ LineSphereGap = 0
    /\ selectedObject = -1

\* the ray starts outside the sphere of the object with index 0 and points
\* away from its centre
PointsAway ==
    LET oc == VecSub(cameraPosition, Obj(objects, 0).position)
    IN  /\ 4 * Dot(oc, oc) > Dot(Obj(objects, 0).scale, Obj(objects, 0).scale)
        /\ Dot(rayDirection, oc) > 0

\* the ray passes through the centre of the object with index 0
ThroughCentre ==
    LET oc == VecSub(cameraPosition, Obj(objects, 0).position)
    IN  /\ Cross(rayDirection, oc) = Vec(0, 0, 0)
        /\ Dot(rayDirection, oc) < 0

\* C19: the sphere test is false for every ray that points away from the
\* sphere and true for every ray through its centre.
C19_AwayMissesCentreHits ==
    PickedAlone =>
        /\ PointsAway => selectedObject = -1
        /\ ThroughCentre => selectedObject = 0

\* the ray passes through one of the points of the arrow of the given axis
\* of obj (the points at every tenth of its length)
RayThroughArrow(obj, axis) ==
    \E k \in 0..Unit :
        LET point == [obj.position EXCEPT ![axis + 1] = @ + k]
            toPoint == VecSub(point, cameraPosition)
        IN  /\ Cross(rayDirection, toPoint) = Vec(0, 0, 0)
            /\ Dot(rayDirection, toPoint) >= 0

\* C20: for every arrow segment a press tests and every ray that passes
\* through a point of it, the distance the test computes is 0.
C20_ThroughSegmentIsZero ==
    (UncapturedPress /\ pre.selectedObject >= 0) =>
        \A axis \in 0..2 :
            LET obj == Obj(objects, pre.selectedObject)
            IN  RayThroughArrow(obj, axis) =>
                    DistanceFromRayToLineSegment(
                        cameraPosition, rayDirection, obj.position,
                        VecAdd(obj.position, AxisUnit(axis))).num = 0


\* C21: with the object at the origin selected and the camera at (0, 0, 5),
\* a press whose ray passes through the tip (1, 0, 0) of the X arrow selects
\* the X axis and starts a drag.
C21_TipClickSelectsX ==
    LET tip == Vec(Unit, 0, 0)
    IN  ( /\ UncapturedPress /\ pre.selectedObject = 0
          /\ objects = << NewObject(Vec(0, 0, 0)) >>
          /\ cameraPosition = Vec(0, 0, 5 * Unit)
          /\ Cross(rayDirection, VecSub(tip, cameraPosition)) = Vec(0, 0, 0)
          /\ Dot(rayDirection, VecSub(tip, cameraPosition)) > 0 )
        => (selectedAxis = 0 /\ isDragging)


\* the press that ran last has run the picking loop
PickingRan ==
    UncapturedPress /\ (pre.selectedObject = -1 \/ ~isDragging)

\* C22: picking with an empty object list leaves no selection and evaluates
\* objects[i] for no i.
C22_EmptyListPicksNothing ==
    (PickingRan /\ Len(objects) = 0) =>
        /\ selectedObject = -1
        /\ PickVisited(cameraPosition, rayDirection, objects) = {}

\* a press has run the picking loop on the empty list
C22_Witness ==
    /\ PickingRan /\ objects = << >>
    /\ selectedObject = -1


-----------------------------------------------------------------------------
(* Properties of the selection and of what a step may change.              *)

\* C23: in every reachable state selectedObject is -1 or an index of the
\* object list, so objects[selectedObject] is in range wherever the code
\* has only tested selectedObject >= 0.
C23_SelectionInRange ==
    selectedObject = -1 \/ (0 <= selectedObject /\ selectedObject < Len(objects))

\* a frame has drawn the gizmo of the last object of the list, and a press
\* has tested its arrows
C23_Witness ==
    /\ Len(objects) = 2 /\ selectedObject = 1
    /\ \/ lastEvent = "frame" /\ pre.gizmo # << >>
       \/ UncapturedPress /\ pre.selectedObject = 1


\* C24: objects are dragged only by frames taken with isDragging true, an
\* object selected and an axis selected: a frame with isDragging false and
\* every cursor move leave the objects, the selection, the axis and the
\* anchor as they are, and no step but such a frame (and the add of an
\* object) changes the object list.
C24_DragOnlyInDragFrames ==
    [][/\ ((lastEvent' = "frame" /\ ~isDragging) \/ lastEvent' = "cursor")
           => UNCHANGED <<objects, selectedObject, selectedAxis, initialClickPosition>>
       /\ objects' # objects
           => \/ lastEvent' = "add"
              \/ /\ lastEvent' = "frame"
                 /\ isDragging /\ selectedObject >= 0 /\ selectedAxis >= 0]_vars

\* the cursor has moved in the middle of a drag, away from the anchor along
\* the selected axis, and the anchor is still where the press put it
C24_Witness ==
    /\ lastEvent = "cursor"
    /\ isDragging /\ selectedObject >= 0 /\ selectedAxis >= 0
    /\ FrameRayPoint[selectedAxis + 1] # initialClickPosition[selectedAxis + 1]


\* C25: a drag frame changes nothing but the selected object, and of it
\* nothing but the component of the selected axis: of the position in
\* Translate mode, of the scale in Scale mode; the other objects, the
\* selection, the axis, isDragging and the mode stay as they are.
C25_DragFrameIsLocal ==
    [][DragFrameStep =>
          /\ UNCHANGED <<selectedObject, selectedAxis, isDragging, currentMode>>
          /\ Len(objects') = Len(objects)
          /\ \A i \in 1..Len(objects) :
                 i # selectedObject + 1 => objects'[i] = objects[i]
          /\ LET old == objects[selectedObject + 1]
                 new == objects'[selectedObject + 1]
             IN  /\ \A j \in 1..3 :
                        j # selectedAxis + 1
                            => /\ new.position[j] = old.position[j]
                               /\ new.scale[j] = old.scale[j]
                 /\ currentMode # TRANSLATE => new.position = old.position
                 /\ currentMode # SCALE => new.scale = old.scale]_vars

\* a Scale frame has changed the Z scale of the second cube, whose other
\* components and whose neighbour, dragged before, are as they were
C25_Witness ==
    /\ DragFrameRan /\ currentMode = SCALE
    /\ selectedObject = 1 /\ selectedAxis = 2
    /\ FrameScalar # 0
    /\ objects[2].scale[3] # pre.gizmo[1].extent[3]
    /\ objects[2].scale[1] = pre.gizmo[1].extent[1]
    /\ objects[1] # NewObject(Vec(0, 5, 0))

=============================================================================
